---- MODULE Spec2Model ----
(***************************************************************************)
(* State-machine model of concopt's Atmosphere / FlightCondition objects   *)
(* (src/src/concopt/atmosphere.py, src/src/concopt/condition.py).          *)
(*                                                                         *)
(* Quantities are integers in fixed units:                                 *)
(*   altitude H          hectometres (100 m)                               *)
(*   geometric altitude  decametres  (10 m)                                *)
(*   temperature         centikelvin (0.01 K)                              *)
(*   pressure            pascal                                            *)
(*   sound speed         dm/s                                              *)
(*   Mach number         hundredths                                        *)
(*   TAS, CAS            mm/s  (= hundredths of Mach times dm/s)           *)
(* An array is a non-empty sequence; a scalar is a sequence of length 1    *)
(* (np.atleast_1d).  None is the empty sequence.  A getter that raises     *)
(* returns Err.  NaN is the value numpy produces for an invalid power.     *)
(*                                                                         *)
(* Names the source uses but that no file under src/ defines are resolved  *)
(* as follows: Phys.gamma_air (condition.py:542) is the ratio of specific  *)
(* heats Phys.gamma (constants.py:39); IsentropicFlow, NonDimensional and  *)
(* _EAS_from_TAS are the formulas of section 4.2 of the specification.     *)
(***************************************************************************)
EXTENDS Integers, Sequences, FiniteSets, TLC

\* ------------------------------------------------------------------------
\* Bounds of the model
\* ------------------------------------------------------------------------
\* largest array size of an input
MaxLen == 3
\* number of setter calls made on the object after its construction
MaxCalls == 2
\* number of altitude assignments made in the altitude sweep
MaxGridCalls == 1
\* number of significant bits a floating-point number keeps in the wind
\* triangle
Precision == 5

\* ------------------------------------------------------------------------
\* Markers
\* ------------------------------------------------------------------------
None == << >>
Err == << >>
NaN == -(2^30)
Scale == 10^4
Kilo == 10^3

\* ------------------------------------------------------------------------
\* Physical constants (src/src/concopt/constants.py)
\* ------------------------------------------------------------------------
\* g = 9.80665 m/s^2, in mm/s^2
G1000 == 9807
\* R_star = 287.05287 J/(K kg), in hundredths
RStar100 == 28705
\* gamma = 1.4, in tenths
Gamma10 == 14
\* R_earth = 6356.766 km, in hectometres
REarth == 63568

\* Layer table (data/atmosphere.csv, ICAO standard atmosphere):
\* base altitude [hm], base temperature [cK], lapse rate [cK/hm],
\* base pressure [Pa]
H_base == <<0, 110, 200, 320, 470, 510, 710, 800>>
T_base == <<28815, 21665, 21665, 22865, 27065, 27065, 21465, 19665>>
T_grad == <<-65, 0, 10, 28, 0, -28, -20, 0>>
p_base == <<101325, 22632, 5475, 868, 111, 67, 4, 1>>

\* ------------------------------------------------------------------------
\* Fixed-point arithmetic standing for float64 / numpy
\* ------------------------------------------------------------------------
Abs(x) == IF x < 0 THEN -x ELSE x

Max2(a, b) == IF a >= b THEN a ELSE b

\* truncating signed division
SDiv(a, b) ==
    IF (a >= 0) = (b > 0) THEN Abs(a) \div Abs(b) ELSE -(Abs(a) \div Abs(b))

\* floor(a*b/d) for a, b >= 0, d > 0 without an intermediate a*b
MulDiv(a, b, d) == (a \div d) * b + ((a % d) * b) \div d

RECURSIVE SqrtSearch(_, _, _)
SqrtSearch(n, lo, hi) ==
    IF lo >= hi THEN lo
    ELSE LET mid == (lo + hi + 1) \div 2
         IN  IF mid * mid <= n THEN SqrtSearch(n, mid, hi)
             ELSE SqrtSearch(n, lo, mid - 1)

\* np.sqrt on a non-negative number
ISqrt(n) == SqrtSearch(n, 0, 46340)

RECURSIVE ExpSeries(_, _, _, _)
ExpSeries(x, k, term, acc) ==
    IF term = 0 \/ k > 12 THEN acc
    ELSE LET t == (term * x) \div (k * Scale)
         IN  ExpSeries(x, k + 1, t,
                       IF k % 2 = 1 THEN acc - t ELSE acc + t)

\* Scale * exp(-x/Scale) for x >= 0
RECURSIVE ExpNeg(_)
ExpNeg(x) ==
    IF x > Scale
    THEN LET half == ExpNeg(x \div 2) IN (half * half) \div Scale
    ELSE ExpSeries(x, 1, Scale, Scale)

\* Scale * exp(y/Scale), np.exp
Exp(y) ==
    IF y <= 0 THEN ExpNeg(-y)
    ELSE (Scale * Scale) \div Max2(1, ExpNeg(y))

\* Scale * ln(b/Scale) for b > 0 with b/Scale in about [0.5, 2]
Ln(b) ==
    LET z  == SDiv((b - Scale) * Scale, b + Scale)
        z2 == (z * z) \div Scale
        z3 == SDiv(z2 * z, Scale)
        z5 == SDiv(z2 * z3, Scale)
        z7 == SDiv(z2 * z5, Scale)
    IN  2 * (z + SDiv(z3, 3) + SDiv(z5, 5) + SDiv(z7, 7))

\* ------------------------------------------------------------------------
\* Arrays
\* ------------------------------------------------------------------------
Size(arr) == Len(arr)

Elems(arr) == {arr[i] : i \in 1..Len(arr)}

Fill(n, v) == [i \in 1..n |-> v]

\* numpy broadcasting of two 1-D shapes: 0 when they cannot be broadcast
BcastSize(m, n) ==
    IF m = n THEN m
    ELSE IF m = 1 THEN n
    ELSE IF n = 1 THEN m
    ELSE 0

At(arr, i) == IF Len(arr) = 1 THEN arr[1] ELSE arr[i]

\* ------------------------------------------------------------------------
\* Layer  (src/src/concopt/atmosphere.py:26-157)
\* ------------------------------------------------------------------------
\* Layer._layer_idx with the upper end of a layer taken as part of it
_layer_idx_ClosedAbove(H) ==
    LET hits == {i \in 1..(Len(H_base) - 1) :
                    H_base[i] <= H /\ H <= H_base[i + 1]}
    IN  IF hits = {} THEN 0
        ELSE CHOOSE i \in hits : \A j \in hits : i <= j

\* Layer._layer_idx: index of the first row i of H_base[:-1] with
\* H_base[i] <= H < H_base[i+1]; 0 stands for the ValueError of the
\* for/else.
_layer_idx(H) ==
    LET hits == {i \in 1..(Len(H_base) - 1) :
                    H_base[i] <= H /\ H < H_base[i + 1]}
    IN  IF hits = {} THEN 0
        ELSE CHOOSE i \in hits : \A j \in hits : i <= j

LayerRow(jdx) ==
    [H_base |-> H_base[jdx], T_base |-> T_base[jdx],
     T_grad |-> T_grad[jdx], p_base |-> p_base[jdx]]

\* Layer.__init__: Err when _layer_idx raises for some element
Layer(H_arr) ==
    IF \E i \in 1..Len(H_arr) : _layer_idx(H_arr[i]) = 0 THEN Err
    ELSE [i \in 1..Len(H_arr) |-> LayerRow(_layer_idx(H_arr[i]))]

\* ------------------------------------------------------------------------
\* Atmosphere  (src/src/concopt/atmosphere.py:160-601)
\* ------------------------------------------------------------------------
H_min == H_base[1]
H_max == H_base[Len(H_base)]

\* Atmosphere._h_from_H, per element: h = R_earth*H/(R_earth - H)
_h_from_H(H_arr) ==
    [i \in 1..Len(H_arr) |-> (REarth * H_arr[i] * 10) \div (REarth - H_arr[i])]

\* Atmosphere.T (getter)
T_get(self) ==
    IF self._T # None THEN self._T
    ELSE LET n == BcastSize(Len(self.layer), Len(self._H))
         IN  IF n = 0 THEN Err
             ELSE [i \in 1..n |->
                     At(self.layer, i).T_base
                       + At(self.layer, i).T_grad
                           * (At(self._H, i) - At(self.layer, i).H_base)]

\* one element of the pressure equations of Atmosphere.p
p_layer(row, H, T) ==
    LET dH == H - row.H_base
    IN  IF row.T_grad = 0
        THEN \* p_base*exp((-g_0/(R_star*T))*(H - H_base))
             LET x == SDiv(G1000 * dH * 100, (RStar100 * T) \div (10 * Scale))
             IN  MulDiv(Exp(-x), row.p_base, Scale)
        ELSE \* p_base*(1 + (T_grad/T_base)*(H - H_base))
             \*            **((1/T_grad)*(-g_0/R_star))
             LET b == Scale + SDiv(row.T_grad * dH * Scale, row.T_base)
                 y == -SDiv(SDiv(G1000 * Ln(b), row.T_grad) * 100,
                            RStar100 \div 10)
             IN  IF b <= 0 THEN NaN
                 ELSE MulDiv(Exp(y), row.p_base, Scale)

\* "ValueError" when reading T raises, "IndexError" when a boolean mask of
\* the layer's size indexes an array of another size, "none" otherwise
p_raises(self) ==
    LET Masked(T) ==
            IF T = Err THEN "ValueError"
            ELSE IF Len(self._H) # Len(self.layer)
                      \/ Len(T) # Len(self.layer) THEN "IndexError"
            ELSE "none"
    IN  IF self._p # None THEN "none" ELSE Masked(T_get(self))

\* Atmosphere.p (getter)
p_get(self) ==
    LET Compute(T) ==
            [i \in 1..Len(self._H) |->
                p_layer(self.layer[i], self._H[i], T[i])]
    IN  IF self._p # None THEN self._p
        ELSE IF p_raises(self) # "none" THEN Err
        ELSE Compute(T_get(self))

\* Atmosphere.a (getter): sqrt(gamma*R_star*T)
a_get(self) ==
    LET Sound(T) ==
            IF T = Err THEN Err
            ELSE [i \in 1..Len(T) |->
                    IF T[i] < 0 THEN NaN
                    ELSE ISqrt(MulDiv(T[i], Gamma10 * RStar100, Kilo))]
    IN  Sound(T_get(self))

\* Atmosphere.H (setter) with the bounds check moved after the first writes
Atmosphere_H_set_WritesBeforeCheck(self, H) ==
    LET s1 == [self EXCEPT !._H = H, !._h = _h_from_H(H)]
    IN  IF \E i \in 1..Len(H) : H[i] < H_min \/ H_max < H[i]
        THEN [obj |-> s1, raised |-> "ValueError"]
        ELSE IF Layer(H) = Err
             THEN [obj |-> s1, raised |-> "ValueError"]
             ELSE [obj |-> [s1 EXCEPT !.layer = Layer(H),
                                      !._T = None, !._p = None,
                                      !._wdir = None, !._wspd = None],
                   raised |-> "none"]

\* Atmosphere.H (setter), lines 442-474
Atmosphere_H_set(self, H) ==
    IF \E i \in 1..Len(H) : H[i] < H_min \/ H_max < H[i]
    THEN [obj |-> self, raised |-> "ValueError"]
    ELSE LET s1 == [self EXCEPT !._H = H, !._h = _h_from_H(H)]
         IN  IF Layer(H) = Err
             THEN [obj |-> s1, raised |-> "ValueError"]
             ELSE [obj |-> [s1 EXCEPT !.layer = Layer(H),
                                      !._T = None, !._p = None,
                                      !._wdir = None, !._wspd = None],
                   raised |-> "none"]

\* Atmosphere.p (setter), lines 506-512
Atmosphere_p_set(self, p) ==
    IF Size(p) # Size(self._H)
    THEN [obj |-> self, raised |-> "AttributeError"]
    ELSE [obj |-> [self EXCEPT !._p = p], raised |-> "none"]

\* Atmosphere.T (setter) with the size check moved after the write
Atmosphere_T_set_WritesBeforeCheck(self, T) ==
    IF Size(T) # Size(self._H)
    THEN [obj |-> [self EXCEPT !._T = T], raised |-> "AttributeError"]
    ELSE [obj |-> [self EXCEPT !._T = T], raised |-> "none"]

\* Atmosphere.T (setter), lines 528-534
Atmosphere_T_set(self, T) ==
    IF Size(T) # Size(self._H)
    THEN [obj |-> self, raised |-> "AttributeError"]
    ELSE [obj |-> [self EXCEPT !._T = T], raised |-> "none"]

\* Atmosphere.wdir (setter), lines 575-581
Atmosphere_wdir_set(self, wdir) ==
    IF Size(wdir) # Size(self._H)
    THEN [obj |-> self, raised |-> "AttributeError"]
    ELSE [obj |-> [self EXCEPT !._wdir = wdir], raised |-> "none"]

\* Atmosphere.wspd (setter), lines 595-601
Atmosphere_wspd_set(self, wspd) ==
    IF Size(wspd) # Size(self._H)
    THEN [obj |-> self, raised |-> "AttributeError"]
    ELSE [obj |-> [self EXCEPT !._wspd = wspd], raised |-> "none"]

\* the attributes of an object before any setter has run
Blank(cls) ==
    [cls |-> cls, _H |-> None, _h |-> None, layer |-> None,
     _T |-> None, _p |-> None, _wdir |-> None, _wspd |-> None,
     _M |-> None, _TAS |-> None, _CAS |-> None, _q_c |-> None,
     _EAS |-> None, _holdconst_vel_var |-> "", _atm0 |-> None]

\* Atmosphere.__init__, lines 203-258
Atmosphere_init(H) == Atmosphere_H_set(Blank("Atmosphere"), H)

\* ------------------------------------------------------------------------
\* IsentropicFlow and NonDimensional (modules imported by condition.py:22-23;
\* formulas of section 4.2 of the specification)
\* ------------------------------------------------------------------------
\* Scale * (1 + (gamma-1)/2 M^2)^(gamma/(gamma-1)); gamma/(gamma-1) = 7/2
p0_by_p(M) ==
    IF M = NaN THEN NaN
    ELSE LET x  == Scale + ((Gamma10 - 10) * M * M) \div 20
             x2 == (x * x) \div Scale
             x3 == MulDiv(x2, x, Scale)
         IN  MulDiv(x3, ISqrt(x * Scale), Scale)

\* smallest Mach in lo..hi whose stagnation pressure ratio reaches r
RECURSIVE MachSearch(_, _, _)
MachSearch(r, lo, hi) ==
    IF lo >= hi THEN lo
    ELSE LET mid == (lo + hi) \div 2
         IN  IF p0_by_p(mid) >= r THEN MachSearch(r, lo, mid)
             ELSE MachSearch(r, mid + 1, hi)

\* the inverse of p0_by_p on a ratio r (scaled by Scale)
M_from_p0_by_p(r) ==
    IF r = NaN \/ r < Scale THEN NaN ELSE MachSearch(r, 0, 400)

\* NonDimensional.mach_velocity: U = M*a
mach_velocity(M, a) == IF M = NaN \/ a = NaN THEN NaN ELSE M * a

\* NonDimensional.mach_number: M = U/a
mach_number(U, a) == IF U = NaN \/ a = NaN \/ a <= 0 THEN NaN ELSE SDiv(U, a)

\* ------------------------------------------------------------------------
\* FlightCondition  (src/src/concopt/condition.py)
\* ------------------------------------------------------------------------
_mach_min == 0
_mach_max == 300
\* the 200 delta_degC of FlightCondition.T (setter), in centikelvin
TOffset == 20000

\* FlightCondition._check_compatible_array_size, lines 291-321
_check_compatible_array_size(arr1, arr2) ==
    ~(Size(arr1) > 1 /\ Size(arr2) > 1 /\ Size(arr1) # Size(arr2))

\* FlightCondition._reshape_arr1_like_arr2, lines 351-364
_reshape_arr1_like_arr2(arr1, arr2) ==
    IF Size(arr2) > 1 /\ Size(arr1) = 1 THEN Fill(Size(arr2), arr1[1])
    ELSE arr1

\* FlightCondition._preprocess_arr, lines 366-394
_preprocess_arr(input_arr, input_alt) ==
    _reshape_arr1_like_arr2(input_arr, input_alt)

\* FlightCondition._impact_pressure for one element
impact1(M, p) ==
    IF M = NaN \/ p = NaN THEN NaN ELSE MulDiv(p0_by_p(M), p, Scale) - p

\* (q_c + p)/p for one element, scaled by Scale and rounded to nearest; a
\* pressure below the resolution of the model gives NaN
ratio1(q_c, p) ==
    IF q_c = NaN \/ p = NaN \/ p <= 0 THEN NaN
    ELSE ((q_c + p) \div p) * Scale
           + ((((q_c + p) % p) * Scale) + (p \div 2)) \div p

\* FlightCondition._TAS_from_M, lines 561-573
_TAS_from_M(self, M) ==
    LET Velocity(a) ==
            IF a = Err \/ BcastSize(Len(M), Len(a)) = 0 THEN Err
            ELSE [i \in 1..BcastSize(Len(M), Len(a)) |->
                     mach_velocity(At(M, i), At(a, i))]
    IN  Velocity(a_get(self))

\* _M_from_TAS with the sea-level sound speed in place of the ambient one
_M_from_TAS_SeaLevel(self, TAS) ==
    LET Number(a) ==
            IF a = Err \/ BcastSize(Len(TAS), Len(a)) = 0 THEN Err
            ELSE [i \in 1..BcastSize(Len(TAS), Len(a)) |->
                     mach_number(At(TAS, i), At(a, i))]
    IN  Number(a_get(self._atm0))

\* FlightCondition._M_from_TAS, lines 547-559
_M_from_TAS(self, TAS) ==
    LET Number(a) ==
            IF a = Err \/ BcastSize(Len(TAS), Len(a)) = 0 THEN Err
            ELSE [i \in 1..BcastSize(Len(TAS), Len(a)) |->
                     mach_number(At(TAS, i), At(a, i))]
    IN  Number(a_get(self))

\* FlightCondition._q_c_from_M, lines 630-643
_q_c_from_M(self, M) ==
    LET Impact(p) ==
            IF p = Err \/ BcastSize(Len(M), Len(p)) = 0 THEN Err
            ELSE [i \in 1..BcastSize(Len(M), Len(p)) |->
                     impact1(At(M, i), At(p, i))]
    IN  Impact(p_get(self))

\* FlightCondition._M_from_q_c, lines 613-628
_M_from_q_c(self, q_c) ==
    LET Number(p) ==
            IF p = Err \/ BcastSize(Len(q_c), Len(p)) = 0 THEN Err
            ELSE [i \in 1..BcastSize(Len(q_c), Len(p)) |->
                     M_from_p0_by_p(ratio1(At(q_c, i), At(p, i)))]
    IN  Number(p_get(self))

\* FlightCondition._q_c_from_CAS, lines 575-591
_q_c_from_CAS(self, CAS) ==
    LET Impact(a_h0, p_h0) ==
            [i \in 1..Len(CAS) |->
                impact1(mach_number(CAS[i], a_h0[1]), p_h0[1])]
    IN  Impact(a_get(self._atm0), p_get(self._atm0))

\* FlightCondition._CAS_from_q_c, lines 593-611
_CAS_from_q_c(self, q_c) ==
    LET Velocity(a_h0, p_h0) ==
            [i \in 1..Len(q_c) |->
                mach_velocity(M_from_p0_by_p(ratio1(q_c[i], p_h0[1])),
                              a_h0[1])]
    IN  Velocity(a_get(self._atm0), p_get(self._atm0))

\* the _EAS_from_TAS call of the TAS and CAS setters, kept as the pair of
\* arguments the value was computed from
_EAS_from_TAS(self, TAS, M) == <<TAS, M>>

\* the exception a failed computation of q_c or M from p carries
pq_raises(self) ==
    LET Carried(e) == IF e # "none" THEN e ELSE "ValueError"
    IN  Carried(p_raises(self))

\* FlightCondition._process_input_velocity, lines 439-454: TRUE when the
\* size check raises
_process_input_velocity_raises(self, vel_arr) ==
    ~_check_compatible_array_size(vel_arr, self._H)

_process_input_velocity(self, vel_arr) ==
    [self EXCEPT !._H = _reshape_arr1_like_arr2(self._H, vel_arr)]

\* FlightCondition.M (setter), lines 665-677.  LineN takes the object as it
\* is when line N starts, StoreN the value line N computed
M_set(self, M) ==
    LET Store672(s3, qc) ==
            IF qc = Err THEN [obj |-> s3, raised |-> pq_raises(s3)]
            ELSE [obj |-> [s3 EXCEPT !._q_c = qc,
                                     !._CAS = _CAS_from_q_c(s3, qc),
                                     !._holdconst_vel_var = "M"],
                  raised |-> "none"]
        Line672(s3) == Store672(s3, _q_c_from_M(s3, s3._M))
        Store671(s2, tas) ==
            IF tas = Err THEN [obj |-> s2, raised |-> "ValueError"]
            ELSE Line672([s2 EXCEPT !._TAS = tas])
        Line669(s1) ==
            IF _process_input_velocity_raises(s1, s1._M)
            THEN [obj |-> s1, raised |-> "AttributeError"]
            ELSE Store671(_process_input_velocity(s1, s1._M),
                         _TAS_from_M(_process_input_velocity(s1, s1._M),
                                     s1._M))
    IN  Line669([self EXCEPT !._M = _preprocess_arr(M, self._H)])

\* FlightCondition.TAS (setter), lines 684-697
TAS_set(self, TAS) ==
    LET Store693(s3, qc) ==
            IF qc = Err THEN [obj |-> s3, raised |-> pq_raises(s3)]
            ELSE [obj |-> [s3 EXCEPT !._q_c = qc,
                                     !._CAS = _CAS_from_q_c(s3, qc),
                                     !._holdconst_vel_var = "TAS"],
                  raised |-> "none"]
        Line693(s3) == Store693(s3, _q_c_from_M(s3, s3._M))
        Store691(s2, m) ==
            IF m = Err THEN [obj |-> s2, raised |-> "ValueError"]
            ELSE Line693([s2 EXCEPT !._M = m,
                                    !._EAS = _EAS_from_TAS(s2, s2._TAS, m)])
        Line688(s1) ==
            IF _process_input_velocity_raises(s1, s1._TAS)
            THEN [obj |-> s1, raised |-> "AttributeError"]
            ELSE Store691(_process_input_velocity(s1, s1._TAS),
                         _M_from_TAS(_process_input_velocity(s1, s1._TAS),
                                     TAS))
    IN  Line688([self EXCEPT !._TAS = _preprocess_arr(TAS, self._H)])

\* FlightCondition.CAS (setter), lines 704-717
CAS_set(self, CAS) ==
    LET Store713(s4, tas, m) ==
            IF tas = Err THEN [obj |-> s4, raised |-> "ValueError"]
            ELSE [obj |-> [s4 EXCEPT !._TAS = tas,
                                     !._EAS = _EAS_from_TAS(s4, tas, m),
                                     !._holdconst_vel_var = "CAS"],
                  raised |-> "none"]
        Line713(s4) == Store713(s4, _TAS_from_M(s4, s4._M), s4._M)
        Store712(s3, m) ==
            IF m = Err THEN [obj |-> s3, raised |-> pq_raises(s3)]
            ELSE Line713([s3 EXCEPT !._M = m])
        Line712(s3) == Store712(s3, _M_from_q_c(s3, s3._q_c))
        Line711(s2) ==
            Line712([s2 EXCEPT !._q_c = _q_c_from_CAS(s2, s2._CAS)])
        Line708(s1) ==
            IF _process_input_velocity_raises(s1, s1._CAS)
            THEN [obj |-> s1, raised |-> "AttributeError"]
            ELSE Line711(_process_input_velocity(s1, s1._CAS))
    IN  Line708([self EXCEPT !._CAS = _preprocess_arr(CAS, self._H)])

\* FlightCondition.H (setter), lines 409-434
FlightCondition_H_set(self, H) ==
    LET Line421(r) ==
            IF r.raised # "none" THEN r
            ELSE IF r.obj._M = None THEN r
            ELSE IF ~_check_compatible_array_size(H, r.obj._M) THEN r
            ELSE IF r.obj._holdconst_vel_var = "TAS"
                 THEN TAS_set(r.obj, _reshape_arr1_like_arr2(r.obj._TAS, H))
            ELSE IF r.obj._holdconst_vel_var = "CAS"
                 THEN CAS_set(r.obj, _reshape_arr1_like_arr2(r.obj._CAS, H))
            ELSE M_set(r.obj, _reshape_arr1_like_arr2(r.obj._M, H))
    IN  Line421(Atmosphere_H_set(self, H))

\* FlightCondition.T (setter) writing the override into the sea-level
\* reference atmosphere as well
FlightCondition_T_set_OverridesReference(self, T) ==
    LET Line755(s1) == M_set(s1, s1._M)
    IN  IF Size(T) # Size(self._H)
        THEN [obj |-> self, raised |-> "AttributeError"]
        ELSE Line755([self EXCEPT
                        !._T = [i \in 1..Len(T) |-> T[i] + TOffset],
                        !._atm0._T = <<T[1] + TOffset>>])

\* FlightCondition.T (setter), lines 748-755
FlightCondition_T_set(self, T) ==
    LET Line755(s1) == M_set(s1, s1._M)
    IN  IF Size(T) # Size(self._H)
        THEN [obj |-> self, raised |-> "AttributeError"]
        ELSE Line755([self EXCEPT
                        !._T = [i \in 1..Len(T) |-> T[i] + TOffset]])

\* the Mach check of FlightCondition.__init__, lines 167-175
MachOutOfBounds(M) ==
    \E i \in 1..Len(M) :
        M[i] # NaN /\ (M[i] < _mach_min \/ _mach_max < M[i])

\* FlightCondition.__init__, lines 108-175; kind names the velocity
\* argument that was passed ("none": no velocity argument)
FlightCondition_init(H, kind, vel) ==
    LET Line168(r1) ==
            IF r1.raised # "none" THEN r1
            ELSE IF MachOutOfBounds(r1.obj._M)
                 THEN [obj |-> r1.obj, raised |-> "ValueError"]
            ELSE r1
        Line157(s1) ==
            Line168(IF kind = "TAS" THEN TAS_set(s1, vel)
                    ELSE IF kind = "CAS" THEN CAS_set(s1, vel)
                    ELSE M_set(s1, IF kind = "M" THEN vel ELSE <<0>>))
        Line136(r0) ==
            IF r0.raised # "none" THEN r0
            ELSE Line157([r0.obj EXCEPT
                            !._atm0 = Atmosphere_init(<<0>>).obj,
                            !._holdconst_vel_var = "CAS"])
    IN  Line136(Atmosphere_H_set(Blank("FlightCondition"), H))

\* the setters as Python dispatches them on the class of the object
H_set(self, H) ==
    IF self.cls = "FlightCondition" THEN FlightCondition_H_set(self, H)
    ELSE Atmosphere_H_set(self, H)

T_set(self, T) ==
    IF self.cls = "FlightCondition" THEN FlightCondition_T_set(self, T)
    ELSE Atmosphere_T_set(self, T)

\* ------------------------------------------------------------------------
\* Inputs
\* ------------------------------------------------------------------------
Sizes == 1..MaxLen

HSeq == <<50, 150, 0, 110>>
HRamp(n) == [i \in 1..n |-> HSeq[((i - 1) % Len(HSeq)) + 1]]
HInputs ==
    {<<v>> : v \in {-1, 0, 50, 150, 800, 801}}
    \cup {HRamp(n) : n \in Sizes \ {1}}
    \cup {[HRamp(n) EXCEPT ![n] = 800] : n \in Sizes \ {1}}

MSeq == <<30, 85, 204>>
MRamp(n) == [i \in 1..n |-> MSeq[((i - 1) % Len(MSeq)) + 1]]
MInputs ==
    {<<v>> : v \in {85, 300, 301}} \cup {MRamp(n) : n \in Sizes \ {1}}

TASInputs == {<<v>> : v \in {250000, 1100000}}

CASInputs == {<<v>> : v \in {150000, 600000}}

TInputs == {Fill(n, 22665) : n \in Sizes}

pInputs == {Fill(n, 90000) : n \in Sizes}

wdirInputs == {<<270>>}

wspdInputs == {<<25>>}

VelInputs(kind) ==
    IF kind = "M" THEN MInputs
    ELSE IF kind = "TAS" THEN TASInputs
    ELSE IF kind = "CAS" THEN CASInputs
    ELSE {None}

\* ------------------------------------------------------------------------
\* The state machine: one object, the outcome of the last call on it, the
\* number of calls made, whether every call so far returned without error,
\* and the setters called so far
\* ------------------------------------------------------------------------
VARIABLES obj, last, calls, clean, used

vars == <<obj, last, calls, clean, used>>

Call(op, arg, r) ==
    /\ calls' = calls + 1
    /\ obj' = r.obj
    /\ last' = [op |-> op, arg |-> arg, raised |-> r.raised]
    /\ clean' = (clean /\ r.raised = "none")
    /\ used' = used \cup {op}

Init ==
    /\ calls = 0
    /\ clean = TRUE
    /\ used = {}
    /\ \/ \E H \in HInputs :
             \E r \in {Atmosphere_init(H)} :
                /\ r.raised = "none"
                /\ obj = r.obj
                /\ last = [op |-> "init", arg |-> H, raised |-> "none"]
       \/ \E H \in HInputs, kind \in {"M", "TAS", "CAS", "none"} :
             \E vel \in VelInputs(kind) :
                \E r \in {FlightCondition_init(H, kind, vel)} :
                   /\ r.raised = "none"
                   /\ obj = r.obj
                   /\ last = [op |-> "init", arg |-> H, raised |-> "none"]

SetH ==
    /\ calls < MaxCalls
    /\ \E H \in HInputs : Call("H", H, H_set(obj, H))

SetT ==
    /\ calls < MaxCalls
    /\ \E T \in TInputs : Call("T", T, T_set(obj, T))

SetP ==
    /\ calls < MaxCalls
    /\ \E p \in pInputs : Call("p", p, Atmosphere_p_set(obj, p))

SetWdir ==
    /\ calls < MaxCalls
    /\ \E w \in wdirInputs : Call("wdir", w, Atmosphere_wdir_set(obj, w))

SetWspd ==
    /\ calls < MaxCalls
    /\ \E w \in wspdInputs : Call("wspd", w, Atmosphere_wspd_set(obj, w))

SetM ==
    /\ calls < MaxCalls
    /\ obj.cls = "FlightCondition"
    /\ \E M \in MInputs : Call("M", M, M_set(obj, M))

SetTAS ==
    /\ calls < MaxCalls
    /\ obj.cls = "FlightCondition"
    /\ \E TAS \in TASInputs : Call("TAS", TAS, TAS_set(obj, TAS))

SetCAS ==
    /\ calls < MaxCalls
    /\ obj.cls = "FlightCondition"
    /\ \E CAS \in CASInputs : Call("CAS", CAS, CAS_set(obj, CAS))

Next ==
    \/ SetH
    \/ SetT
    \/ SetP
    \/ SetWdir
    \/ SetWspd
    \/ SetM
    \/ SetTAS
    \/ SetCAS

Spec == Init /\ [][Next]_vars

TypeOK == obj.cls \in {"Atmosphere", "FlightCondition"}

\* ------------------------------------------------------------------------
\* Altitude sweep: an Atmosphere assigned every altitude of the table's
\* range, one hectometre apart, and pairs of altitudes around the layer
\* bases
\* ------------------------------------------------------------------------
HGrid == (H_min - 1)..(H_max + 1)

HNearBase ==
    {H_base[i] + d : i \in 1..Len(H_base), d \in {-1, 0, 1}}

GridInit ==
    /\ calls = 0
    /\ clean = TRUE
    /\ used = {}
    /\ \E r \in {Atmosphere_init(<<H_min>>)} :
          /\ r.raised = "none"
          /\ obj = r.obj
          /\ last = [op |-> "init", arg |-> <<H_min>>, raised |-> "none"]

GridSetH ==
    /\ calls < MaxGridCalls
    /\ \E H \in HGrid : Call("H", <<H>>, Atmosphere_H_set(obj, <<H>>))

GridSetHPair ==
    /\ calls < MaxGridCalls
    /\ \E H1 \in HNearBase, H2 \in HNearBase :
          Call("H", <<H1, H2>>, Atmosphere_H_set(obj, <<H1, H2>>))

GridNext ==
    \/ GridSetH
    \/ GridSetHPair

SpecLayer == GridInit /\ [][GridNext]_vars

\* ------------------------------------------------------------------------
\* conditions.py: pressure ratios and the Mach number of a calibrated
\* airspeed.  A speed ratio (Mach number, or CAS / a_0) is an integer
\* number of 1/MUnit; a pressure ratio is a one-element array in units of
\* 1/PrScale, and None where the source yields None.  A function that
\* raises returns Err.
\* ------------------------------------------------------------------------
MUnit == 10^4

PrScale == 10^3

pratio_cutoff == 893

maxiter == 25

mbounds == <<0, 5 * MUnit>>

Squared(mach) == MulDiv(mach, mach, MUnit)

saint_venant_formula(mach) ==
    LET Pow35(y) ==
            MulDiv(MulDiv(MulDiv(y, y, Scale), y, Scale),
                   ISqrt(y * Scale), Scale)
    IN  <<(Pow35(Scale + ((Gamma10 - 10) * Squared(mach)) \div 20) - Scale)
            \div (Scale \div PrScale)>>

scaler == 16692

mscaler == (2 * Gamma10) \div (Gamma10 - 10)

lord_rayleigh_formula(mach) ==
    LET m2 == Squared(mach)
        Eq(q) ==
            MulDiv(MulDiv(MulDiv(q * q, ISqrt(q * Scale), Scale), m2, Scale),
                   scaler, Scale) \div 100
    IN  IF mscaler * m2 - Scale <= 0
        THEN None
        ELSE <<(Eq((Scale * Scale)
                      \div (mscaler * Scale - (Scale * Scale) \div m2))
                  - Scale) \div (Scale \div PrScale)>>

calc_pressure_ratio_RayleighOnly(speed_ratio) ==
    lord_rayleigh_formula(speed_ratio)

calc_pressure_ratio(speed_ratio) ==
    LET Select(sv, lr) == IF sv[1] < pratio_cutoff THEN sv ELSE lr
    IN  Select(saint_venant_formula(speed_ratio),
               lord_rayleigh_formula(speed_ratio))

pressure_ratio_from_cas(cas) == calc_pressure_ratio(cas)

\* the Mach numbers minimize_scalar evaluates, one tolerance apart, and the
\* pressure ratio of each
xatol == 1000

MachGrid == {k * xatol : k \in (mbounds[1] \div xatol)..(mbounds[2] \div xatol)}

PrOnGrid == [mach \in MachGrid |-> calc_pressure_ratio(mach)]

pressure_ratio_from_mach(mach) == PrOnGrid[mach]

pressure_ratio_error(mach, cas_pr) ==
    LET Line216(pr) == IF pr = None THEN Err ELSE <<Abs(pr[1] - cas_pr)>>
    IN  Line216(pressure_ratio_from_mach(mach))

\* scipy.optimize.minimize_scalar(method='bounded') on a grid of Mach
\* numbers: the bracket [a, b], the best point xf with its error fx, the
\* last point evaluated x with its error fu, and the number nfev of
\* evaluations.  A trial point is the golden-section point of the larger
\* part of the bracket or a point one tolerance away from xf, which is
\* where a parabolic step may land.
golden_mean == 382

Snap(x) == (x \div xatol) * xatol

Converged(s) == Max2(s.xf - s.a, s.b - s.xf) <= 2 * xatol

GoldenPoint(s) ==
    LET Step(e) == Max2(Snap(MulDiv(e, golden_mean, Kilo)), xatol)
    IN  IF 2 * s.xf >= s.a + s.b
        THEN s.xf - Step(s.xf - s.a)
        ELSE s.xf + Step(s.b - s.xf)

Candidates(s) ==
    {GoldenPoint(s)}
    \cup {x \in {s.xf - xatol, s.xf + xatol} : s.a < x /\ x < s.b}

Continue_NoBudget(s) == "minimize"

Continue(s) == IF s.nfev >= maxiter THEN "done" ELSE "minimize"

Evaluate(s, x, fu) ==
    LET Counted == [s EXCEPT !.x = x, !.fu = fu, !.nfev = s.nfev + 1]
        Budget(t) == [t EXCEPT !.flag = IF Continue(t) = "done" THEN 1 ELSE 0,
                               !.status = Continue(t)]
    IN  IF fu = Err
        THEN [Counted EXCEPT !.status = "raised"]
        ELSE IF fu[1] <= s.fx[1]
        THEN Budget([Counted EXCEPT
                        !.a = IF x >= s.xf THEN s.xf ELSE s.a,
                        !.b = IF x >= s.xf THEN s.b ELSE s.xf,
                        !.xf = x, !.fx = fu])
        ELSE Budget([Counted EXCEPT
                        !.a = IF x < s.xf THEN x ELSE s.a,
                        !.b = IF x < s.xf THEN s.b ELSE x])

SpeedRatios == {3000, 9000, 10004, 12000, 20000}

StaticPressureRatios == {1000, 4476, 18300}

Keep == UNCHANGED <<calls, clean, used>>

Raised(s) == IF s.status = "raised" THEN "TypeError" ELSE "none"

SolveInit ==
    /\ calls = 0
    /\ clean = TRUE
    /\ used = {}
    /\ \E cas \in SpeedRatios, p \in StaticPressureRatios :
          /\ obj = [cls |-> "calc_mach_from_cas", status |-> "called",
                    cas |-> cas, p_0_by_p |-> p, pr_cas |-> None,
                    pr_from_vc |-> None, a |-> mbounds[1], b |-> mbounds[2],
                    xf |-> mbounds[1], fx |-> None, x |-> mbounds[1],
                    fu |-> None, nfev |-> 0, flag |-> 0, res |-> None]
          /\ last = [op |-> "calc_mach_from_cas", arg |-> <<cas, p>>,
                     raised |-> "none"]

PressureRatioFromCas ==
    /\ obj.status = "called"
    /\ \E pr \in {pressure_ratio_from_cas(obj.cas)} :
          obj' = [obj EXCEPT
                    !.pr_cas = pr,
                    !.pr_from_vc =
                        IF pr = None THEN None
                        ELSE <<MulDiv(pr[1], obj.p_0_by_p, Kilo)>>,
                    !.status = IF pr = None THEN "raised" ELSE "bounded"]
    /\ last' = [last EXCEPT !.raised = Raised(obj')]
    /\ Keep

MinimizeStart ==
    /\ obj.status = "bounded"
    /\ \E x \in {Snap(obj.a + MulDiv(obj.b - obj.a, golden_mean, Kilo))} :
       \E fu \in {pressure_ratio_error(x, obj.pr_from_vc[1])} :
          obj' = [obj EXCEPT
                    !.xf = x, !.fx = fu, !.x = x, !.fu = fu, !.nfev = 1,
                    !.status = IF fu = Err THEN "raised" ELSE "minimize"]
    /\ last' = [last EXCEPT !.raised = Raised(obj')]
    /\ Keep

MinimizeIterate ==
    /\ obj.status = "minimize"
    /\ ~Converged(obj)
    /\ \E x \in Candidates(obj) :
       \E fu \in {pressure_ratio_error(x, obj.pr_from_vc[1])} :
          obj' = Evaluate(obj, x, fu)
    /\ last' = [last EXCEPT !.raised = Raised(obj')]
    /\ Keep

MinimizeConverged ==
    /\ obj.status = "minimize"
    /\ Converged(obj)
    /\ obj' = [obj EXCEPT !.status = "done", !.flag = 0]
    /\ UNCHANGED last
    /\ Keep

ReturnMach ==
    /\ obj.status = "done"
    /\ obj' = [obj EXCEPT !.status = "returned", !.res = <<obj.xf>>]
    /\ UNCHANGED last
    /\ Keep

SolveNext ==
    \/ PressureRatioFromCas
    \/ MinimizeStart
    \/ MinimizeIterate
    \/ MinimizeConverged
    \/ ReturnMach

SpecSolve == SolveInit /\ [][SolveNext]_vars /\ WF_vars(SolveNext)

\* ------------------------------------------------------------------------
\* conditions.py: the wind triangle.  Speeds are whole numbers; every
\* arithmetic result is rounded to Precision significant bits, to nearest
\* and ties to even, as float64 rounds to 53.  Angles are degrees.
\* ------------------------------------------------------------------------
RECURSIVE BitLen(_)
BitLen(x) == IF x = 0 THEN 0 ELSE 1 + BitLen(x \div 2)

Fl(x) ==
    LET Round(m) ==
            LET Unit(u) ==
                    IF 2 * (m % u) > u
                       \/ (2 * (m % u) = u /\ (m \div u) % 2 = 1)
                    THEN (m \div u + 1) * u
                    ELSE (m \div u) * u
            IN  IF m < 2^Precision THEN m ELSE Unit(2^(BitLen(m) - Precision))
    IN  IF x < 0 THEN -Round(-x) ELSE Round(x)

\* np.cos of an angle that is a multiple of a right angle
Cos(deg) ==
    IF deg % 360 = 0 THEN 1 ELSE IF deg % 360 = 180 THEN -1 ELSE 0

\* np.sqrt: nan for a negative number
Sqrt(g) ==
    LET Nearest(r) == IF g - r * r > r THEN r + 1 ELSE r
    IN  IF g < 0 THEN NaN ELSE Fl(Nearest(ISqrt(g)))

Discriminant_TASNotSquared(wind_speed, wind_dir, true_air_speed, heading) ==
    Fl(Fl(Fl(wind_speed * wind_speed) + true_air_speed)
       + Fl(Fl(Fl(2 * wind_speed) * true_air_speed)
            * Cos(wind_dir - heading)))

Discriminant(wind_speed, wind_dir, true_air_speed, heading) ==
    Fl(Fl(Fl(wind_speed * wind_speed) + Fl(true_air_speed * true_air_speed))
       + Fl(Fl(Fl(2 * wind_speed) * true_air_speed)
            * Cos(wind_dir - heading)))

calc_ground_speed(wind_speed, wind_dir, true_air_speed, heading) ==
    [i \in 1..Len(true_air_speed) |->
        Sqrt(Discriminant(wind_speed[i], wind_dir[i],
                          true_air_speed[i], heading[i]))]

WindSpeeds == 0..(2^Precision - 1)

WindAngles == {0, 90, 180, 270}

WindHeadings == {0, 180}

\* a column of true airspeeds one apart, none above the largest speed
TASColumn(n, t) == [i \in 1..n |-> IF t + i - 1 \in WindSpeeds THEN t + i - 1 ELSE t]

WindInit ==
    /\ calls = 0
    /\ clean = TRUE
    /\ used = {}
    /\ \E n \in Sizes, w \in WindSpeeds, t \in WindSpeeds,
          d \in WindAngles, h \in WindHeadings :
          /\ obj = [cls |-> "calc_ground_speed", status |-> "called",
                    wind_speed |-> Fill(n, w), wind_dir |-> Fill(n, d),
                    true_air_speed |-> TASColumn(n, t),
                    heading |-> Fill(n, h), gs |-> None]
          /\ last = [op |-> "calc_ground_speed", arg |-> <<w, d, t, h>>,
                     raised |-> "none"]

CalcGroundSpeed ==
    /\ obj.status = "called"
    /\ obj' = [obj EXCEPT
                 !.status = "returned",
                 !.gs = calc_ground_speed(obj.wind_speed, obj.wind_dir,
                                          obj.true_air_speed, obj.heading)]
    /\ UNCHANGED <<last, calls, clean, used>>

WindNext == CalcGroundSpeed

SpecWind == WindInit /\ [][WindNext]_vars

\* ------------------------------------------------------------------------
\* The Mach sweep: a FlightCondition built from a Mach number at an
\* altitude on or next to a layer base, whose true airspeed is read and
\* assigned back, or given to the constructor of another FlightCondition at
\* the same altitude
\* ------------------------------------------------------------------------
SweepAltitudes ==
    {<<H>> : H \in {G \in HNearBase : H_min <= G /\ G <= H_max}}
    \cup {<<H_base[i], H_base[i] + 50>> : i \in 1..3}

SweepMach == _mach_min.._mach_max

SweepInit ==
    /\ calls = 0
    /\ clean = TRUE
    /\ used = {}
    /\ \E H \in SweepAltitudes, M \in SweepMach :
       \E r \in {FlightCondition_init(H, "M", <<M>>)} :
          /\ r.raised = "none"
          /\ obj = r.obj
          /\ last = [op |-> "init", arg |-> <<M>>, raised |-> "none"]

AssignTASBack ==
    /\ calls < MaxGridCalls
    /\ Call("TAS", obj._TAS, TAS_set(obj, obj._TAS))

ConstructFromTAS ==
    /\ calls < MaxGridCalls
    /\ Call("init", obj._TAS, FlightCondition_init(obj._H, "TAS", obj._TAS))

SweepNext ==
    \/ AssignTASBack
    \/ ConstructFromTAS

SpecSweep == SweepInit /\ [][SweepNext]_vars

\* ------------------------------------------------------------------------
\* Two FlightCondition objects in one process.  Beside the two objects the
\* process holds the default system of the unit registry (units.py:12,
\* written by Atmosphere.units) and the filters of the warnings module
\* (written by lord_rayleigh_formula).  A quantity that passes
\* to_base_units_wrapper is expressed in the base units of the registry's
\* default system.
\* ------------------------------------------------------------------------
UnitSystems == {"SI", "US"}

\* Atmosphere.units (setter), lines 410-426, on object k of the pair
Atmosphere_units_set(pair, k, units) ==
    IF units \notin UnitSystems THEN pair
    ELSE [pair EXCEPT !._units[k] = units, !.default_system = units]

\* to_base_units_wrapper: output.ito_base_units()
to_base_units_wrapper(output, default_system) ==
    [magnitude |-> output, base_units_of |-> default_system]

\* what a caller reads from object k of the pair
ReadOf(pair, k) ==
    [H |-> pair.fc[k]._H,
     M |-> to_base_units_wrapper(pair.fc[k]._M, pair.default_system),
     TAS |-> to_base_units_wrapper(
                 _TAS_from_M(pair.fc[k], pair.fc[k]._M), pair.default_system),
     T |-> T_get(pair.fc[k]),
     p |-> p_get(pair.fc[k])]

\* lord_rayleigh_formula, lines 124 and 134: warnings.filterwarnings("error")
\* and warnings.resetwarnings()
warnings_after_lord_rayleigh(filters) == "reset"

PairInputs == {<<H, M>> : H \in {0, 110}, M \in {30, 85}}

PairInit ==
    /\ calls = 0
    /\ clean = TRUE
    /\ used = {}
    /\ \E i1 \in PairInputs, i2 \in PairInputs :
       \E r1 \in {FlightCondition_init(<<i1[1]>>, "M", <<i1[2]>>)},
          r2 \in {FlightCondition_init(<<i2[1]>>, "M", <<i2[2]>>)} :
          /\ r1.raised = "none"
          /\ r2.raised = "none"
          /\ obj = [cls |-> "pair", fc |-> <<r1.obj, r2.obj>>,
                    _units |-> <<"SI", "SI">>, default_system |-> "SI",
                    filters |-> "default"]
          /\ last = [op |-> "init", arg |-> <<i1, i2>>, raised |-> "none"]

OnOne(k, r) == [obj |-> [obj EXCEPT !.fc[k] = r.obj], raised |-> r.raised]

PairSetUnits ==
    /\ calls < MaxCalls
    /\ \E k \in 1..2, units \in UnitSystems \cup {"metric"} :
          Call("units", <<k, units>>,
               [obj |-> Atmosphere_units_set(obj, k, units),
                raised |-> "none"])

PairSetH ==
    /\ calls < MaxCalls
    /\ \E k \in 1..2, H \in {50, 150} :
          Call("H", <<k, H>>, OnOne(k, FlightCondition_H_set(obj.fc[k], <<H>>)))

PairSetM ==
    /\ calls < MaxCalls
    /\ \E k \in 1..2, M \in {30, 204} :
          Call("M", <<k, M>>, OnOne(k, M_set(obj.fc[k], <<M>>)))

PairSetT ==
    /\ calls < MaxCalls
    /\ \E k \in 1..2 :
          Call("T", <<k, 22665>>,
               OnOne(k, FlightCondition_T_set(obj.fc[k], <<22665>>)))

PairSolve ==
    /\ calls < MaxCalls
    /\ \E k \in 1..2 :
          Call("calc_mach_from_cas", <<k>>,
               [obj |-> [obj EXCEPT !.filters =
                            warnings_after_lord_rayleigh(obj.filters)],
                raised |-> "none"])

PairNext ==
    \/ PairSetUnits
    \/ PairSetH
    \/ PairSetM
    \/ PairSetT
    \/ PairSolve

SpecPair == PairInit /\ [][PairNext]_vars

\* ------------------------------------------------------------------------
\* Vocabulary of the properties
\* ------------------------------------------------------------------------
Called == calls' = calls + 1

IsFC(o) == o.cls = "FlightCondition"

VelOps == {"M", "TAS", "CAS"}

OutOfRange(H) == \E i \in 1..Len(H) : H[i] < H_min \/ H_max < H[i]

VelSet(op, self, arg) ==
    IF op = "M" THEN M_set(self, arg)
    ELSE IF op = "TAS" THEN TAS_set(self, arg)
    ELSE CAS_set(self, arg)

VelState(o) == <<o._M, o._TAS, o._CAS, o._q_c, o._holdconst_vel_var>>

Held(o) ==
    IF o._holdconst_vel_var = "M" THEN o._M
    ELSE IF o._holdconst_vel_var = "TAS" THEN o._TAS
    ELSE o._CAS

\* the other velocity quantities are the ones computed from the held one
\* at the present altitude
DerivedFromHeld(o) ==
    IF o._holdconst_vel_var = "M"
    THEN /\ o._TAS = _TAS_from_M(o, o._M)
         /\ o._q_c = _q_c_from_M(o, o._M)
         /\ o._CAS = _CAS_from_q_c(o, o._q_c)
    ELSE IF o._holdconst_vel_var = "TAS"
    THEN /\ o._M = _M_from_TAS(o, o._TAS)
         /\ o._q_c = _q_c_from_M(o, o._M)
         /\ o._CAS = _CAS_from_q_c(o, o._q_c)
    ELSE /\ o._q_c = _q_c_from_CAS(o, o._CAS)
         /\ o._M = _M_from_q_c(o, o._q_c)
         /\ o._TAS = _TAS_from_M(o, o._M)

\* two arrays agree element by element within tol[i]
Within(x, y, tol) ==
    /\ x # Err /\ y # Err /\ tol # Err
    /\ Len(x) = Len(y)
    /\ BcastSize(Len(x), Len(tol)) = Len(x)
    /\ \A i \in 1..Len(x) : Abs(x[i] - y[i]) <= At(tol, i)

\* TAS = M*a(H), q_c = p(H)*(p0_by_p(M) - 1) and CAS from that q_c, up to
\* one hundredth of Mach (the resolution of the model)
Consistent(o) ==
    /\ Within(o._TAS, _TAS_from_M(o, o._M), a_get(o))
    /\ Within(_M_from_q_c(o, o._q_c), o._M, <<1>>)
    /\ Within(o._CAS, _CAS_from_q_c(o, o._q_c), a_get(o._atm0))

\* the row of the layer table an altitude in [H_min, H_max] belongs to, the
\* top layer taking H_max
RowOf(H) ==
    IF H = H_max THEN Len(H_base) - 1
    ELSE CHOOSE j \in 1..(Len(H_base) - 1) :
            H_base[j] <= H /\ H < H_base[j + 1]

\* T_base[i] + lapse_rate[i]*(H - H_base[i]) with i the layer of H
StdT(H) == T_base[RowOf(H)] + T_grad[RowOf(H)] * (H - H_base[RowOf(H)])

\* ------------------------------------------------------------------------
\* Properties
\* ------------------------------------------------------------------------

\* ------------------------------------------------------------------------
\* The layer table as state of the process: AtmosphereConstants holds four
\* arrays, which Layer.__init__ indexes each time a Layer is built.  The
\* process holds the table and one Atmosphere or FlightCondition object.
\* ------------------------------------------------------------------------
Atmo ==
    [H_base |-> H_base, T_base |-> T_base,
     T_grad |-> T_grad, p_base |-> p_base]

\* Layer.__init__ with the assignment of the first copy turned around
Layer_init_WritesTable(table, H_arr) ==
    [Atmo |-> IF _layer_idx(H_arr[1]) = 0 THEN table
              ELSE [table EXCEPT !.H_base[_layer_idx(H_arr[1])] = 0],
     layer |-> Layer(H_arr)]

\* Layer.__init__, lines 36-56: the table after the loop and the rows copied
Layer_init(table, H_arr) ==
    [Atmo |-> table,
     layer |->
        IF \E i \in 1..Len(H_arr) : _layer_idx(H_arr[i]) = 0 THEN Err
        ELSE [i \in 1..Len(H_arr) |->
                [H_base |-> table.H_base[_layer_idx(H_arr[i])],
                 T_base |-> table.T_base[_layer_idx(H_arr[i])],
                 T_grad |-> table.T_grad[_layer_idx(H_arr[i])],
                 p_base |-> table.p_base[_layer_idx(H_arr[i])]]]]

\* the table after Atmosphere.H (setter), which builds a Layer once the
\* altitude passed the bounds check (line 465)
TableAfterH(table, H) ==
    IF OutOfRange(H) THEN table ELSE Layer_init(table, H).Atmo

InProcess(r, table) ==
    [obj |-> [cls |-> "process", atm |-> r.obj, Atmo |-> table],
     raised |-> r.raised]

TableInit ==
    /\ calls = 0
    /\ clean = TRUE
    /\ used = {}
    /\ \E H \in {<<0>>, <<150>>} :
       \E r \in {InProcess(Atmosphere_init(H), TableAfterH(Atmo, H))} :
          /\ r.raised = "none"
          /\ obj = r.obj
          /\ last = [op |-> "init", arg |-> H, raised |-> "none"]

TableNewFlightCondition ==
    /\ calls < MaxCalls
    /\ \E H \in HInputs, kind \in {"M", "CAS"} :
       \E vel \in {v \in VelInputs(kind) : Len(v) = 1} :
       \E r \in {FlightCondition_init(H, kind, vel)} :
          Call("init", H,
               InProcess([obj |-> IF r.raised = "none" THEN r.obj
                                  ELSE obj.atm,
                          raised |-> r.raised],
                         TableAfterH(TableAfterH(obj.Atmo, H), <<0>>)))

TableSetH ==
    /\ calls < MaxCalls
    /\ \E H \in HInputs :
          Call("H", H, InProcess(H_set(obj.atm, H), TableAfterH(obj.Atmo, H)))

TableSetVelocity ==
    /\ calls < MaxCalls
    /\ obj.atm.cls = "FlightCondition"
    /\ \E op \in VelOps : \E vel \in VelInputs(op) :
          Call(op, vel, InProcess(VelSet(op, obj.atm, vel), obj.Atmo))

TableSetOverride ==
    /\ calls < MaxCalls
    /\ \/ \E T \in TInputs :
             Call("T", T, InProcess(T_set(obj.atm, T), obj.Atmo))
       \/ \E p \in pInputs :
             Call("p", p, InProcess(Atmosphere_p_set(obj.atm, p), obj.Atmo))

TableNext ==
    \/ TableNewFlightCondition
    \/ TableSetH
    \/ TableSetVelocity
    \/ TableSetOverride

SpecTable == TableInit /\ [][TableNext]_vars

C2_BoundaryAltitudeAccepted ==
    (/\ obj.cls = "Atmosphere"
     /\ last.op = "H"
     /\ ~OutOfRange(last.arg)
     /\ (H_min \in Elems(last.arg) \/ H_max \in Elems(last.arg)))
    => (/\ last.raised = "none"
        /\ obj._H = last.arg
        /\ Len(obj.layer) = Len(last.arg)
        /\ T_get(obj) # Err
        /\ p_get(obj) # Err)

\* C3: after construction and any sequence of M, TAS, CAS, altitude and
\* temperature-override assignments that all returned without error, every
\* element of the stored Mach number lies in [0, 3].
C3_MachWithinBounds ==
    (IsFC(obj) /\ clean /\ used \subseteq {"M", "TAS", "CAS", "H", "T"})
    => \A i \in 1..Len(obj._M) :
          _mach_min <= obj._M[i] /\ obj._M[i] <= _mach_max

\* C4: a velocity assignment whose resulting Mach lies outside [0, 3] raises
\* and leaves the stored M, TAS, CAS, impact pressure and held-constant tag
\* as they were.
C4_OutOfBoundsVelocityRejected ==
    [][(/\ Called
        /\ last'.op \in VelOps
        /\ MachOutOfBounds(VelSet(last'.op, obj, last'.arg).obj._M))
          => (last'.raised # "none" /\ VelState(obj') = VelState(obj))]_vars

\* C5: a successful velocity assignment makes the assigned quantity the held
\* one; an altitude assignment that returns keeps the held tag and the held
\* value (broadcast to the new altitude size) and leaves the other velocity
\* quantities equal to the ones computed from it at the new altitude.
C5_HeldQuantityKeptOverAltitude ==
    [][/\ (Called /\ last'.op \in VelOps /\ last'.raised = "none")
             => obj'._holdconst_vel_var = last'.op
       /\ (Called /\ last'.op = "H" /\ last'.raised = "none" /\ IsFC(obj))
             => /\ obj'._holdconst_vel_var = obj._holdconst_vel_var
                /\ Held(obj') = _reshape_arr1_like_arr2(Held(obj), last'.arg)
                /\ DerivedFromHeld(obj')]_vars

\* C6: after any sequence of successful writes to altitude, M, TAS, CAS, the
\* temperature override or the pressure override, TAS = M*a(H),
\* q_c = p0 - p with p0 = p(H)*p0_by_p(M), and CAS is the sea-level speed of
\* that q_c.
C6_VelocityQuantitiesConsistent ==
    (IsFC(obj) /\ clean /\ used \subseteq {"H", "M", "TAS", "CAS", "T", "p"})
    => Consistent(obj)

\* C7: every successful call that changes the stored altitude leaves no
\* temperature override and no pressure override behind.
C7_AltitudeChangeClearsOverrides ==
    [][(Called /\ last'.raised = "none" /\ obj'._H # obj._H)
          => (obj'._T = None /\ obj'._p = None)]_vars

\* C8: after a temperature (pressure) override v was set without error, T
\* (p) reads v.
C8_OverrideReadBack ==
    /\ (last.op = "T" /\ last.raised = "none") => T_get(obj) = last.arg
    /\ (last.op = "p" /\ last.raised = "none") => p_get(obj) = last.arg

\* C9: a temperature or pressure override whose size differs from the size
\* of the altitude array raises, and leaves the object, the stored
\* overrides included, as it was.
C9_OverrideSizeMismatchRejected ==
    [][(Called /\ last'.op \in {"T", "p"}
               /\ Size(last'.arg) # Size(obj._H))
          => (last'.raised = "AttributeError" /\ obj' = obj)]_vars

\* an override of the wrong size was rejected while another temperature
\* override was stored
C9_Witness ==
    /\ last.op = "T" /\ Size(last.arg) # Size(obj._H)
    /\ last.raised = "AttributeError"
    /\ obj._T # None

\* C10: after altitude and velocity assignments that all returned without
\* error, the altitude size and the Mach size are equal or one of them is 1.
C10_SizesCompatible ==
    (IsFC(obj) /\ clean /\ used \subseteq {"H", "M", "TAS", "CAS"})
    => _check_compatible_array_size(obj._H, obj._M)

\* C11: a velocity assignment whose array size is incompatible with the
\* altitude size (both greater than 1 and different) raises, and the stored
\* M, TAS, CAS, q_c, altitude and held-constant tag are as before the call.
C11_SizeMismatchVelocityRejected ==
    [][(/\ Called
        /\ last'.op \in VelOps
        /\ ~_check_compatible_array_size(last'.arg, obj._H))
          => (/\ last'.raised # "none"
              /\ VelState(obj') = VelState(obj)
              /\ obj'._H = obj._H)]_vars

\* C12: in every state reached by calls that returned without error, the
\* cached layer data and the cached geometric altitude are the ones of the
\* stored altitude array, element for element.
C12_CachesFollowAltitude ==
    clean => (/\ obj._h = _h_from_H(obj._H)
              /\ obj.layer = Layer(obj._H))

\* C13: for an altitude array whose elements all lie in [H_min, H_max), the
\* layer lookup finds for each element the one row i with
\* H_base[i] <= H < H_base[i+1], and Layer stores that row's base altitude,
\* base temperature, lapse rate and base pressure for the element.
C13_LayerLookup ==
    (/\ last.op \in {"init", "H"}
     /\ \A i \in 1..Len(last.arg) :
           H_min <= last.arg[i] /\ last.arg[i] < H_max)
    => /\ last.raised = "none"
       /\ Len(obj.layer) = Len(last.arg)
       /\ \A i \in 1..Len(last.arg) :
             \E j \in 1..(Len(H_base) - 1) :
                /\ H_base[j] <= last.arg[i] /\ last.arg[i] < H_base[j + 1]
                /\ \A k \in 1..(Len(H_base) - 1) :
                      (H_base[k] <= last.arg[i] /\ last.arg[i] < H_base[k + 1])
                         => k = j
                /\ _layer_idx(last.arg[i]) = j
                /\ obj.layer[i] = [H_base |-> H_base[j], T_base |-> T_base[j],
                                   T_grad |-> T_grad[j], p_base |-> p_base[j]]

\* an altitude pair was assigned with one element on the base of the fourth
\* layer and the other just below it, and each got its own row
C13_Witness ==
    /\ last.op = "H" /\ last.raised = "none"
    /\ last.arg = <<H_base[4], H_base[4] - 1>>
    /\ obj.layer[1].T_grad = T_grad[4]
    /\ obj.layer[2].T_grad = T_grad[3]

\* C14: when no temperature override is set, the temperature read for each
\* element of the stored altitude is T_base[i] + lapse_rate[i]*(H - H_base[i])
\* with i the layer of that element, whatever pressure override or velocity
\* assignment was made.
C14_StandardTemperature ==
    obj._T = None
    => T_get(obj) = [i \in 1..Len(obj._H) |-> StdT(obj._H[i])]

\* C15: with a temperature override and no pressure override, the pressure
\* read depends on the overridden temperature in zero-lapse-rate layers and
\* in non-zero-lapse-rate layers alike: an element above its layer's base
\* whose temperature was overridden to another value than the standard one
\* does not read the standard-day pressure.
C15_PressureFromOverriddenTemperature ==
    (clean /\ obj._T # None /\ obj._p = None /\ p_raises(obj) = "none")
    => \A i \in 1..Len(obj._H) :
          (/\ obj._H[i] # H_base[RowOf(obj._H[i])]
           /\ obj._T[i] # StdT(obj._H[i]))
          => p_get(obj)[i] # p_get([obj EXCEPT !._T = None])[i]

\* C16: Mach 3.0 is accepted and a Mach above 3 or below 0 is rejected with
\* an error, by the FlightCondition constructor and by the M setter.
C16_MachBoundsEnforced ==
    /\ \A M \in {<<-1>>, <<0>>, <<_mach_max>>, <<_mach_max + 1>>} :
          FlightCondition_init(<<H_min>>, "M", M).raised
             = IF MachOutOfBounds(M) THEN "ValueError" ELSE "none"
    /\ (last.op = "M" /\ MachOutOfBounds(last.arg)) => last.raised # "none"
    /\ (last.op = "M" /\ last.arg = <<_mach_max>> /\ calls = 1)
          => last.raised = "none"

\* ------------------------------------------------------------------------
\* Vocabulary of the properties of calc_mach_from_cas
\* ------------------------------------------------------------------------
InBounds(x) == mbounds[1] <= x /\ x <= mbounds[2]

WithinBudget ==
    /\ obj.nfev <= maxiter
    /\ InBounds(obj.x)
    /\ InBounds(obj.xf)
    /\ obj.status = "returned" => InBounds(obj.res[1])

\* C17: calc_mach_from_cas always terminates: the bounded minimisation
\* evaluates the pressure-ratio error at most maxiter (25) times and then
\* the function returns, and every Mach number it evaluates and the Mach
\* number it returns lie in the closed interval mbounds = [0, 5].
C17_SolveTerminatesInBudget ==
    [](WithinBudget) /\ <>(obj.status = "returned")

\* the budget is used up and the best Mach number found is returned
C17_Witness ==
    /\ obj.status = "returned"
    /\ obj.nfev = maxiter
    /\ InBounds(obj.res[1])

\* C18: when the minimisation does not reach its tolerance within the
\* budget of 25 evaluations, calc_mach_from_cas returns no Mach number.
C18_NoMachWithoutConvergence ==
    obj.status = "returned" => obj.flag = 0

\* C19: where lord_rayleigh_formula yields None for a speed ratio the
\* solve evaluates, the pressure ratio used is the Saint-Venant number,
\* the error of that candidate is computed from it, and the solve never
\* stops with an exception.
C19_UndefinedRayleighNeverUsed ==
    /\ obj.status # "raised"
    /\ last.raised = "none"
    /\ (obj.status # "called" /\ lord_rayleigh_formula(obj.cas) = None)
          => obj.pr_cas = saint_venant_formula(obj.cas)
    /\ (obj.nfev >= 1 /\ lord_rayleigh_formula(obj.x) = None)
          => /\ pressure_ratio_from_mach(obj.x) = saint_venant_formula(obj.x)
             /\ obj.fu = <<Abs(saint_venant_formula(obj.x)[1]
                               - obj.pr_from_vc[1])>>

\* the minimisation goes on after a candidate whose Rayleigh value is None
C19_Witness ==
    /\ obj.status = "minimize"
    /\ obj.nfev >= 2
    /\ lord_rayleigh_formula(obj.x) = None
    /\ obj.fu # Err

\* C20: calc_pressure_ratio returns the Saint-Venant value whenever that
\* value is at most the cutoff 0.893, the cutoff itself included, and the
\* Rayleigh value whenever it is above the cutoff.
C20_CutoffInclusive ==
    obj.status # "called"
        => obj.pr_cas =
              IF saint_venant_formula(obj.cas)[1] <= pratio_cutoff
              THEN saint_venant_formula(obj.cas)
              ELSE lord_rayleigh_formula(obj.cas)

\* C21: the Mach number calc_mach_from_cas returns lies within the Mach
\* bounds [_mach_min, _mach_max] = [0, 3]: a solve whose minimiser lies
\* above Mach 3 does not return a Mach number above 3.
C21_ReturnedMachWithinMachBounds ==
    obj.status = "returned"
        => /\ _mach_min * (MUnit \div 100) <= obj.res[1]
           /\ obj.res[1] <= _mach_max * (MUnit \div 100)

C23_DiscriminantNonNegative ==
    obj.status = "returned"
    => \A i \in 1..Len(obj.gs) :
          /\ Discriminant(obj.wind_speed[i], obj.wind_dir[i],
                          obj.true_air_speed[i], obj.heading[i]) >= 0
          /\ obj.gs[i] # NaN

C25_InstancesIndependent ==
    [][Called
         => (/\ \A k \in 1..2 :
                   last'.arg[1] # k => ReadOf(obj', k) = ReadOf(obj, k)
             /\ obj'.default_system = obj.default_system
             /\ obj'.filters = obj.filters)]_vars

\* C26: the layer table (H_base, T_base, T_grad, p_base of
\* AtmosphereConstants) is never written after it is loaded: whatever objects
\* are constructed and whatever altitude, velocity and override assignments
\* are made, every row of the table is as loaded, and the rows a Layer
\* holds are rows of that table.
C26_LayerTableNeverWritten ==
    /\ obj.Atmo = Atmo
    /\ obj.atm.layer # None
          => \A i \in DOMAIN obj.atm.layer :
                \E j \in DOMAIN H_base :
                    obj.atm.layer[i] = [H_base |-> H_base[j],
                                        T_base |-> T_base[j],
                                        T_grad |-> T_grad[j],
                                        p_base |-> p_base[j]]

\* a FlightCondition was constructed and its altitude moved to the second
\* layer
C26_Witness ==
    /\ calls = 2
    /\ clean
    /\ obj.atm.cls = "FlightCondition"
    /\ last.op = "H"
    /\ obj.atm.layer[1].H_base = H_base[2]
    /\ obj.Atmo.H_base[2] = H_base[2]

\* ------------------------------------------------------------------------
\* Construction of a FlightCondition from its velocity arguments: M, TAS and
\* CAS are the arguments after the aliases are resolved (lines 141-151),
\* None when not passed
\* ------------------------------------------------------------------------
\* a constructor that looks at TAS before M
AppliedInput_TASFirst(M, TAS, CAS) ==
    IF TAS # None THEN <<"TAS", TAS>>
    ELSE IF M # None THEN <<"M", M>>
    ELSE IF CAS # None THEN <<"CAS", CAS>>
    ELSE <<"none", None>>

\* the if/elif chain of FlightCondition.__init__, lines 157-165: the
\* argument whose setter is called
AppliedInput(M, TAS, CAS) ==
    IF M # None THEN <<"M", M>>
    ELSE IF TAS # None THEN <<"TAS", TAS>>
    ELSE IF CAS # None THEN <<"CAS", CAS>>
    ELSE <<"none", None>>

\* FlightCondition(H=H, M=M, TAS=TAS, CAS=CAS), lines 108-175
FlightCondition_new(H, M, TAS, CAS) ==
    FlightCondition_init(H, AppliedInput(M, TAS, CAS)[1],
                            AppliedInput(M, TAS, CAS)[2])

Optional(S) == {None} \cup S

NewAltitudes == {<<0>>, <<50>>, <<150>>, <<50, 150>>}

NewInit ==
    /\ calls = 0
    /\ clean = TRUE
    /\ used = {}
    /\ \E H \in NewAltitudes, M \in Optional({<<30>>, <<85>>}),
          TAS \in Optional(TASInputs), CAS \in Optional(CASInputs) :
          \E r \in {FlightCondition_new(H, M, TAS, CAS)} :
             /\ r.raised = "none"
             /\ obj = r.obj
             /\ last = [op |-> "init", arg |-> <<H, M, TAS, CAS>>,
                        raised |-> "none"]

NewSetH ==
    /\ calls < MaxCalls
    /\ \E H \in NewAltitudes : Call("H", H, FlightCondition_H_set(obj, H))

NewSetT ==
    /\ calls < MaxCalls
    /\ \E T \in TInputs : Call("T", T, FlightCondition_T_set(obj, T))

NewNext ==
    \/ NewSetH
    \/ NewSetT

SpecNew == NewInit /\ [][NewNext]_vars

\* ------------------------------------------------------------------------
\* Vocabulary of the properties of the constructor
\* ------------------------------------------------------------------------
Constructed == last.op = "init"

NoVelocityInput ==
    last.arg[2] = None /\ last.arg[3] = None /\ last.arg[4] = None

\* C27: a FlightCondition constructed without any velocity argument holds
\* CAS: its held-constant tag is CAS after construction, and the altitude
\* assignment that follows keeps CAS (broadcast to the new altitude) and
\* the tag
C27_DefaultHoldsCAS ==
    [][(Constructed /\ NoVelocityInput /\ Called /\ last'.op = "H"
           /\ last'.raised = "none")
         => /\ obj._holdconst_vel_var = "CAS"
            /\ obj'._holdconst_vel_var = "CAS"
            /\ obj'._CAS = _reshape_arr1_like_arr2(obj._CAS, last'.arg)]_vars

\* C28: the sea-level reference atmosphere of a FlightCondition stays at
\* H = 0 with the standard-day temperature and pressure: whatever altitude,
\* velocity, temperature and pressure assignments are made on the
\* FlightCondition, the sound speed and the pressure that _q_c_from_CAS and
\* _CAS_from_q_c read from it are the sea-level standard ones
C28_SeaLevelReferenceFixed ==
    IsFC(obj)
      => /\ obj._atm0._H = <<0>>
         /\ T_get(obj._atm0) = <<T_base[1]>>
         /\ p_get(obj._atm0) = <<p_base[1]>>
         /\ a_get(obj._atm0)
              = <<ISqrt(MulDiv(T_base[1], Gamma10 * RStar100, Kilo))>>
         /\ \A CAS \in CASInputs :
               _q_c_from_CAS(obj, CAS)
                 = _q_c_from_CAS(FlightCondition_init(<<0>>, "none", None).obj,
                                 CAS)

\* a FlightCondition away from sea level whose temperature was overridden:
\* the ambient sound speed differs from the sea-level one
C28_Witness ==
    /\ IsFC(obj)
    /\ clean
    /\ last.op = "T"
    /\ "H" \in used
    /\ obj._H # <<0>>
    /\ obj._T # None
    /\ a_get(obj) # a_get(obj._atm0)

\* the velocity quantity named by a held-constant tag
Quantity(o, tag) ==
    IF tag = "M" THEN o._M
    ELSE IF tag = "TAS" THEN o._TAS
    ELSE o._CAS

\* C29: a temperature override on a FlightCondition that holds TAS or CAS
\* leaves the held-constant tag and the held value as they were, and the
\* altitude assignment that follows the override still holds that quantity
\* (broadcast to the new altitude)
C29_OverrideKeepsHeldQuantity ==
    [][/\ (/\ IsFC(obj) /\ clean
           /\ obj._holdconst_vel_var \in {"TAS", "CAS"}
           /\ Called /\ last'.op = "T" /\ last'.raised = "none")
         => /\ obj'._holdconst_vel_var = obj._holdconst_vel_var
            /\ Quantity(obj', obj._holdconst_vel_var)
                 = Quantity(obj, obj._holdconst_vel_var)
       /\ (/\ IsFC(obj) /\ clean
           /\ last.op = "T"
           /\ Called /\ last'.op = "H" /\ last'.raised = "none")
         => /\ obj'._holdconst_vel_var = obj._holdconst_vel_var
            /\ Quantity(obj', obj._holdconst_vel_var)
                 = _reshape_arr1_like_arr2(
                      Quantity(obj, obj._holdconst_vel_var), last'.arg)]_vars

\* the tag and the value the priority M, TAS, CAS, default M = 0 selects
PriorityTag(M, TAS, CAS) ==
    IF M # None THEN "M"
    ELSE IF TAS # None THEN "TAS"
    ELSE IF CAS # None THEN "CAS"
    ELSE "M"

PriorityValue(M, TAS, CAS) ==
    IF M # None THEN M
    ELSE IF TAS # None THEN TAS
    ELSE IF CAS # None THEN CAS
    ELSE <<0>>

\* the arguments with every velocity argument but the selected one left out
OnlySelected(H, M, TAS, CAS) ==
    <<H,
      M,
      IF M # None THEN None ELSE TAS,
      IF M # None \/ TAS # None THEN None ELSE CAS>>

ConstructedFrom(arg) == FlightCondition_new(arg[1], arg[2], arg[3], arg[4]).obj

====
